---- MODULE Spec2Model ----
(***************************************************************************)
(* A model of the decode engine of soki/binary: the buffer-backed Decoder  *)
(* (src/decoder.go) and the stream-backed decoderReader                    *)
(* (src/decoder_reader.go).                                                *)
(*                                                                         *)
(* A decoder is constructed over an input, one operation is applied to it, *)
(* and the cursor, the destination and the returned values are recorded.   *)
(* Operations of the code are operators computed as the code computes      *)
(* them; a panic of the code is the flag `fault` of the cursor, which      *)
(* freezes the cursor and the destination until Value recovers it.         *)
(***************************************************************************)
EXTENDS Integers, Sequences, FiniteSets, TLC

VARIABLES
    buff,       \* the input bytes
    backend,    \* which decoder is constructed over them
    x,          \* the argument of Value: [ptr, named, t], t the shape
    prior,      \* what the destination held before the call
    dst,        \* the destination (for Uvarint: the value returned)
    d,          \* the cursor of the decoder
    call,       \* the operation applied, "none" before it
    err,        \* the error returned: "nil", "EOF", "unsupported",
                \* "nonpointer"; "panic" when the call ended in a panic
    ret         \* the int returned by skipByType and Uvarint

vars == <<buff, backend, x, prior, dst, d, call, err, ret>>

(***************************************************************************)
(* Bounds of the model.                                                    *)
(***************************************************************************)
\* longest input drawn from the byte alphabet
MaxLen == 3
\* longest tail that follows a ten-byte varint in an input
MaxTail == 1
\* largest element count a decode loop is followed through
MaxCount == 16
\* longest tail that follows the varint under test in the varint inputs
MaxVarTail == 1

\* the longest input of the cursor specification
MaxStream == 18

\* the most reads one cursor issues in the cursor specification
MaxCalls == 3

(***************************************************************************)
(* Program constants.                                                      *)
(***************************************************************************)
MaxVarintLen64 == 10

\* the length of the scratch buffer decoderReader.Init makes
ScratchLen == 16

\* an int too large for any input of the model (every count or size of at
\* least 2^21 is represented by it)
BigInt == 2 ^ 21
\* an int(s) of a uint64 s >= 2^63: negative
NegInt == 0 - (2 ^ 21)

(***************************************************************************)
(* Bytes and 64-bit words.  A uint64 is kept as its ten base-128 digits,   *)
(* least significant first; the tenth digit holds bit 63 only.             *)
(***************************************************************************)
Byte == 0..255

Min(a, b) == IF a < b THEN a ELSE b

\* Go's integer division truncates toward zero
GoDiv(a, b) == IF a >= 0 THEN a \div b ELSE 0 - ((0 - a) \div b)

\* bit `bit` of byte b is set: (b & (1 << bit)) != 0
TestBit(b, bit) == (b \div (2 ^ bit)) % 2 = 1

RECURSIVE BitOr(_, _)
\* a | b on naturals
BitOr(a, b) ==
    IF a = 0 THEN b
    ELSE IF b = 0 THEN a
    ELSE (IF a % 2 = 1 \/ b % 2 = 1 THEN 1 ELSE 0) + 2 * BitOr(a \div 2, b \div 2)

Zero64 == [i \in 1..10 |-> 0]

\* x | (uint64(p) << (7*i)) for a payload p < 128: the shift drops the bits
\* beyond bit 63, so at i = 9 only bit 0 of p is kept
OrShift(w, p, i) ==
    [w EXCEPT ![i + 1] = BitOr(@, IF i = 9 THEN p % 2 ELSE p)]

\* int(s) of a uint64 s
ToInt(w) ==
    IF w[10] = 1 THEN NegInt
    ELSE IF \E i \in 4..9 : w[i] # 0 THEN BigInt
    ELSE w[1] + 128 * w[2] + 16384 * w[3]

\* ToVarint: the signed value of an unsigned varint (zigzag): the value is
\* mag when neg is FALSE and -(mag + 1) when neg is TRUE
ToVarint(ux) ==
    [neg |-> ux[1] % 2 = 1,
     mag |-> [i \in 1..10 |->
                (ux[i] \div 2) + (IF i < 10 /\ ux[i + 1] % 2 = 1 THEN 64 ELSE 0)]]

\* endian.Uint16/32/64: the bytes of the group, least significant first
endianUint(e, b) ==
    IF e = "LE" THEN b ELSE [i \in 1..Len(b) |-> b[Len(b) + 1 - i]]

(***************************************************************************)
(* The cursor.  data is the input (the byte buffer of a buffer-backed      *)
(* Decoder, or what the underlying reader will deliver), pos the number of *)
(* bytes taken from it, blen the length of the scratch buffer of a stream  *)
(* decoder, endian the byte order, reads the sizes of the Read requests    *)
(* issued.                                                                 *)
(***************************************************************************)
NewCursor(data, isReader, scratch, e) ==
    [data |-> data, pos |-> 0, reader |-> isReader, blen |-> scratch,
     endian |-> e, reads |-> <<>>, fault |-> FALSE, panic |-> "none",
     oob |-> FALSE]

\* panic(what): "eof" is panic(io.ErrUnexpectedEOF), "runtime" a run-time
\* panic of Go (an index or a length out of range)
Fault(c, what) == [c EXCEPT !.fault = TRUE, !.panic = what]

\* a count beyond MaxCount: the run is outside the model
OutOfBounds(c) == [c EXCEPT !.fault = TRUE, !.oob = TRUE]

\* io.Reader.Read(p) of a reader that holds the rest of data: as many bytes
\* as it has, at most len(p)
ReadN(c, size) == Min(size, Len(c.data) - c.pos)

\* coder.reserve: the next size bytes of the buffer, or a panic
coder_reserve(c, size) ==
    IF c.pos + size > Len(c.data) THEN [c |-> Fault(c, "eof"), b |-> <<>>]
    ELSE IF size < 0 THEN [c |-> Fault(c, "runtime"), b |-> <<>>]
    ELSE [c |-> [c EXCEPT !.pos = @ + size],
          b |-> SubSeq(c.data, c.pos + 1, c.pos + size)]

\* a stream reserve that asks the reader again for the bytes a short Read
\* left out
stream_reserve_again(c, size) ==
    IF size < 0 THEN [c |-> Fault(c, "runtime"), b |-> <<>>]
    ELSE LET n == ReadN(c, size)
             c1 == [c EXCEPT !.blen = IF size > @ THEN size ELSE @,
                             !.reads = IF n < size THEN @ \o <<size, size - n>>
                                       ELSE Append(@, size),
                             !.pos = @ + n]
         IN IF n < size
            THEN [c |-> Fault(c1, "eof"), b |-> <<>>]
            ELSE [c |-> c1, b |-> SubSeq(c.data, c.pos + 1, c.pos + size)]

\* the stream branch of Decoder.reserve, and decoderReader.reserve
stream_reserve(c, size) ==
    IF size < 0 THEN [c |-> Fault(c, "runtime"), b |-> <<>>]
    ELSE LET n == ReadN(c, size)
             c1 == [c EXCEPT !.blen = IF size > @ THEN size ELSE @,
                             !.reads = Append(@, size),
                             !.pos = @ + n]
         IN IF n < size
            THEN [c |-> Fault(c1, "eof"), b |-> <<>>]
            ELSE [c |-> c1, b |-> SubSeq(c.data, c.pos + 1, c.pos + size)]

Decoder_reserve(c, size) ==
    IF c.fault THEN [c |-> c, b |-> <<>>]
    ELSE IF c.reader THEN stream_reserve(c, size)
    ELSE coder_reserve(c, size)

decoderReader_reserve(c, size) ==
    IF c.fault THEN [c |-> c, b |-> <<>>]
    ELSE stream_reserve(c, size)

Decoder_Skip(c, size) ==
    LET r == Decoder_reserve(c, size)
    IN [c |-> r.c, n |-> size]

decoderReader_Skip(c, size) ==
    LET r == decoderReader_reserve(c, size)
    IN [c |-> r.c, n |-> size]

(***************************************************************************)
(* Primitive reads.  Each returns the cursor after the read and the value  *)
(* x; after a fault the value is not used.  Let(e, LAMBDA r : b) is b with *)
(* r bound to the value of e.                                              *)
(***************************************************************************)
Let(v, F(_)) == F(v)

\* b[0] of a reserved slice
First(r) == IF r.c.fault THEN 0 ELSE r.b[1]

\* int8(x) of a uint8 x
ToInt8(b) == IF b >= 128 THEN b - 256 ELSE b

Decoder_Bool(c) ==
    Let(Decoder_reserve(c, 1), LAMBDA r : [c |-> r.c, x |-> First(r) # 0])

Decoder_Uint8(c) ==
    Let(Decoder_reserve(c, 1), LAMBDA r : [c |-> r.c, x |-> First(r)])

Decoder_Int8(c) ==
    Let(Decoder_Uint8(c), LAMBDA r : [c |-> r.c, x |-> ToInt8(r.x)])

Decoder_Uint16(c) ==
    Let(Decoder_reserve(c, 2), LAMBDA r : [c |-> r.c, x |-> endianUint(c.endian, r.b)])

Decoder_Uint32(c) ==
    Let(Decoder_reserve(c, 4), LAMBDA r : [c |-> r.c, x |-> endianUint(c.endian, r.b)])

Decoder_Uint64(c) ==
    Let(Decoder_reserve(c, 8), LAMBDA r : [c |-> r.c, x |-> endianUint(c.endian, r.b)])

\* math.Float32frombits / Float64frombits: the float with these bits
Decoder_Float32(c) ==
    Let(Decoder_Uint32(c), LAMBDA r : [c |-> r.c, x |-> [bits |-> r.x]])

Decoder_Float64(c) ==
    Let(Decoder_Uint64(c), LAMBDA r : [c |-> r.c, x |-> [bits |-> r.x]])

\* complex(re, im) once the imaginary part is read
Complex(re, im) == [c |-> im.c, x |-> [re |-> re.x, im |-> im.x]]

Decoder_Complex64(c) ==
    Let(Decoder_Float32(c), LAMBDA re : Complex(re, Decoder_Float32(re.c)))

Decoder_Complex128(c) ==
    Let(Decoder_Float64(c), LAMBDA re : Complex(re, Decoder_Float64(re.c)))

RECURSIVE Decoder_UvarintLoop(_, _, _)
\* the loop of Uvarint at index i with x = w
Decoder_UvarintLoop(c, i, w) ==
    IF ~(i < MaxVarintLen64) THEN [c |-> c, x |-> Zero64, n |-> 0]
    ELSE Let(Decoder_Uint8(c), LAMBDA r :
           IF r.c.fault THEN [c |-> r.c, x |-> Zero64, n |-> 0]
           ELSE IF r.x < 128
                THEN IF i > 9 \/ (i = 9 /\ r.x > 1)
                     THEN [c |-> r.c, x |-> Zero64, n |-> 0 - (i + 1)]
                     ELSE [c |-> r.c, x |-> OrShift(w, r.x % 128, i), n |-> i + 1]
                ELSE Decoder_UvarintLoop(r.c, i + 1, OrShift(w, r.x % 128, i)))

\* Uvarint with the loop started at i = 1
Decoder_Uvarint_from1(c) == Decoder_UvarintLoop(c, 1, Zero64)

Decoder_Uvarint(c) == Decoder_UvarintLoop(c, 0, Zero64)

Decoder_Varint(c) ==
    Let(Decoder_Uvarint(c), LAMBDA r : [c |-> r.c, x |-> ToVarint(r.x), n |-> r.n])

Decoder_String(c) ==
    Let(Decoder_Uvarint(c), LAMBDA u :
        Let(Decoder_reserve(u.c, ToInt(u.x)), LAMBDA r : [c |-> r.c, x |-> r.b]))

Decoder_Int(c) ==
    Let(Decoder_Varint(c), LAMBDA r : [c |-> r.c, x |-> r.x])

Decoder_Uint(c) ==
    Let(Decoder_Uvarint(c), LAMBDA r : [c |-> r.c, x |-> r.x])

\* the primitive reads of the decoderReader
decoderReader_Bool(c) ==
    Let(decoderReader_reserve(c, 1), LAMBDA r : [c |-> r.c, x |-> First(r) # 0])

decoderReader_Uint8(c) ==
    Let(decoderReader_reserve(c, 1), LAMBDA r : [c |-> r.c, x |-> First(r)])

decoderReader_Int8(c) ==
    Let(decoderReader_Uint8(c), LAMBDA r : [c |-> r.c, x |-> ToInt8(r.x)])

decoderReader_Uint16(c) ==
    Let(decoderReader_reserve(c, 2), LAMBDA r : [c |-> r.c, x |-> endianUint(c.endian, r.b)])

decoderReader_Uint32(c) ==
    Let(decoderReader_reserve(c, 4), LAMBDA r : [c |-> r.c, x |-> endianUint(c.endian, r.b)])

decoderReader_Uint64(c) ==
    Let(decoderReader_reserve(c, 8), LAMBDA r : [c |-> r.c, x |-> endianUint(c.endian, r.b)])

decoderReader_Float32(c) ==
    Let(decoderReader_Uint32(c), LAMBDA r : [c |-> r.c, x |-> [bits |-> r.x]])

decoderReader_Float64(c) ==
    Let(decoderReader_Uint64(c), LAMBDA r : [c |-> r.c, x |-> [bits |-> r.x]])

decoderReader_Complex64(c) ==
    Let(decoderReader_Float32(c), LAMBDA re : Complex(re, decoderReader_Float32(re.c)))

decoderReader_Complex128(c) ==
    Let(decoderReader_Float64(c), LAMBDA re : Complex(re, decoderReader_Float64(re.c)))

RECURSIVE decoderReader_UvarintLoop(_, _, _)
decoderReader_UvarintLoop(c, i, w) ==
    IF ~(i < MaxVarintLen64) THEN [c |-> c, x |-> Zero64, n |-> 0]
    ELSE Let(decoderReader_Uint8(c), LAMBDA r :
           IF r.c.fault THEN [c |-> r.c, x |-> Zero64, n |-> 0]
           ELSE IF r.x < 128
                THEN IF i > 9 \/ (i = 9 /\ r.x > 1)
                     THEN [c |-> r.c, x |-> Zero64, n |-> 0 - (i + 1)]
                     ELSE [c |-> r.c, x |-> OrShift(w, r.x, i), n |-> i + 1]
                ELSE decoderReader_UvarintLoop(r.c, i + 1, OrShift(w, r.x % 128, i)))

decoderReader_Uvarint(c) == decoderReader_UvarintLoop(c, 0, Zero64)

decoderReader_Varint(c) ==
    Let(decoderReader_Uvarint(c), LAMBDA r : [c |-> r.c, x |-> ToVarint(r.x), n |-> r.n])

decoderReader_String(c) ==
    Let(decoderReader_Uvarint(c), LAMBDA u :
        Let(decoderReader_reserve(u.c, ToInt(u.x)), LAMBDA r : [c |-> r.c, x |-> r.b]))

(***************************************************************************)
(* Shapes.  A shape is a record with its kind k and, by kind: e the        *)
(* element (or pointee, or mapping value) shape, n the capacity of an      *)
(* array, key the key shape of a mapping, f the fields of a record, each   *)
(* with its shape t and its inclusion flag ok.  Chan stands for the kinds  *)
(* that have no decode rule.                                               *)
(***************************************************************************)
Scalar(kind) == [k |-> kind]
Slice(e) == [k |-> "Slice", e |-> e]
Array(e, n) == [k |-> "Array", e |-> e, n |-> n]
Map(key, e) == [k |-> "Map", key |-> key, e |-> e]
Struct(f) == [k |-> "Struct", f |-> f]
Ptr(e) == [k |-> "Ptr", e |-> e]
Field(t) == [t |-> t, ok |-> TRUE]
Excluded(t) == [t |-> t, ok |-> FALSE]

\* the kinds with a fixed wire size
_fixTypeSize(t) ==
    CASE t.k \in {"Bool", "Int8", "Uint8"} -> 1
      [] t.k \in {"Int16", "Uint16"} -> 2
      [] t.k \in {"Int32", "Uint32", "Float32"} -> 4
      [] t.k \in {"Int64", "Uint64", "Float64", "Complex64"} -> 8
      [] t.k = "Complex128" -> 16
      [] OTHER -> 0 - 1

\* the number of bytes of the minimal varint of uint64(v)
SizeofUvarint(v) ==
    IF v < 0 THEN 10
    ELSE IF v < 128 THEN 1
    ELSE IF v < 16384 THEN 2
    ELSE IF v < BigInt THEN 3
    ELSE 4

\* the wire size of a bool sequence of length: the count prefix and the
\* packed bits
sizeofBoolArray(length) == SizeofUvarint(length) + GoDiv(length + 7, 8)

\* the descriptor's inclusion flag of a record field
validField(f) == f.ok

RECURSIVE Zero(_)
\* the zero value of a shape: nil for slices, mappings and references
Zero(t) ==
    CASE t.k = "Bool" -> FALSE
      [] t.k \in {"Int8", "Uint8"} -> 0
      [] t.k = "Uint16" -> <<0, 0>>
      [] t.k = "Uint32" -> <<0, 0, 0, 0>>
      [] t.k = "Uint64" -> <<0, 0, 0, 0, 0, 0, 0, 0>>
      [] t.k = "Float32" -> [bits |-> <<0, 0, 0, 0>>]
      [] t.k = "Float64" -> [bits |-> <<0, 0, 0, 0, 0, 0, 0, 0>>]
      [] t.k = "Complex64" ->
            [re |-> [bits |-> <<0, 0, 0, 0>>], im |-> [bits |-> <<0, 0, 0, 0>>]]
      [] t.k = "Complex128" ->
            [re |-> [bits |-> <<0, 0, 0, 0, 0, 0, 0, 0>>],
             im |-> [bits |-> <<0, 0, 0, 0, 0, 0, 0, 0>>]]
      [] t.k = "Int" -> ToVarint(Zero64)
      [] t.k = "Uint" -> Zero64
      [] t.k = "Array" -> [i \in 1..t.n |-> Zero(t.e)]
      [] t.k = "Struct" -> [i \in 1..Len(t.f) |-> Zero(t.f[i].t)]
      [] OTHER -> <<>>

\* reflect.MakeSlice(t, size, size)
MakeSlice(t, size) == [i \in 1..size |-> Zero(t.e)]

\* v.SetMapIndex(key, value) on a mapping kept as its entries in the order
\* of insertion
SetMapIndex(m, key, value) ==
    IF \E i \in 1..Len(m) : m[i][1] = key
    THEN [i \in 1..Len(m) |-> IF m[i][1] = key THEN <<key, value>> ELSE m[i]]
    ELSE Append(m, <<key, value>>)

(***************************************************************************)
(* The Decoder: boolArray, value, skipByType, fastValue, Value.            *)
(* value(c, t, old) decodes a destination of shape t that holds old and    *)
(* returns the cursor, the destination afterwards and the error.  A loop   *)
(* of the code is a recursive operator over its index.                     *)
(***************************************************************************)
\* the kinds newPtr allocates a pointee for
PtrKinds ==
    {"Bool", "Int8", "Uint8", "Int16", "Uint16", "Int32", "Uint32", "Int64",
     "Uint64", "Float32", "Float64", "Complex64", "Complex128", "String",
     "Array", "Struct", "Slice", "Map"}

\* newPtr of the Decoder: a reference to a decodable shape gets storage if
\* it has none
newPtr(t, old) ==
    IF t.k = "Ptr" /\ t.e.k \in PtrKinds \cup {"Int", "Uint"}
    THEN [ok |-> TRUE, v |-> IF Len(old) = 0 THEN <<Zero(t.e)>> ELSE old]
    ELSE [ok |-> FALSE, v |-> old]

\* v.SetXxx(r.x) with r the read: nothing is set when the read panicked
Set(old, r) == [c |-> r.c, v |-> IF r.c.fault THEN old ELSE r.x, err |-> "nil"]

\* a routine that ends with `return nil` at cursor c with destination v
Nil(c, v) == [c |-> c, v |-> v, err |-> "nil"]

RECURSIVE Decoder_boolLoop_msb(_, _, _, _, _)
\* the bit loop with the bits of a byte taken from the most significant down
Decoder_boolLoop_msb(c, v, i, l, b) ==
    IF c.fault \/ ~(i < l) THEN [c |-> c, v |-> v]
    ELSE Let(IF i % 8 = 0 THEN Decoder_reserve(c, 1) ELSE [c |-> c, b |-> <<b>>],
             LAMBDA r :
               IF r.c.fault THEN [c |-> r.c, v |-> v]
               ELSE IF ~(i < Len(v)) THEN [c |-> Fault(r.c, "runtime"), v |-> v]
               ELSE Decoder_boolLoop_msb(r.c,
                                         [v EXCEPT ![i + 1] = TestBit(r.b[1], 7 - (i % 8))],
                                         i + 1, l, r.b[1]))

RECURSIVE Decoder_boolLoop(_, _, _, _, _)
\* the loop of boolArray at index i; b is the data byte reserved last.
\* v.Index(i) panics beyond the capacity of an array
Decoder_boolLoop(c, v, i, l, b) ==
    IF c.fault \/ ~(i < l) THEN [c |-> c, v |-> v]
    ELSE Let(IF i % 8 = 0 THEN Decoder_reserve(c, 1) ELSE [c |-> c, b |-> <<b>>],
             LAMBDA r :
               IF r.c.fault THEN [c |-> r.c, v |-> v]
               ELSE IF ~(i < Len(v)) THEN [c |-> Fault(r.c, "runtime"), v |-> v]
               ELSE Decoder_boolLoop(r.c, [v EXCEPT ![i + 1] = TestBit(r.b[1], i % 8)],
                                     i + 1, l, r.b[1]))

\* boolArray once the count l is read
Decoder_boolArrayOf(c, t, old, l) ==
    IF c.fault THEN [c |-> c, v |-> old, n |-> 0]
    ELSE IF l > MaxCount THEN [c |-> OutOfBounds(c), v |-> old, n |-> 0]
    ELSE Let(Decoder_boolLoop(c, IF t.k = "Slice" /\ l > 0 THEN MakeSlice(t, l) ELSE old,
                              0, l, 0),
             LAMBDA r : [c |-> r.c, v |-> r.v, n |-> sizeofBoolArray(l)])

Decoder_boolArray(c, t, old) ==
    IF t.k \in {"Slice", "Array"} /\ t.e.k = "Bool"
    THEN Let(Decoder_Uvarint(c), LAMBDA u : Decoder_boolArrayOf(u.c, t, old, ToInt(u.x)))
    ELSE [c |-> c, v |-> old, n |-> 0 - 1]

RECURSIVE Decoder_value(_, _, _)
RECURSIVE Decoder_skipByType(_, _)
RECURSIVE Decoder_valueElems(_, _, _, _, _)
RECURSIVE Decoder_valueEntries(_, _, _, _, _)
RECURSIVE Decoder_valueFields(_, _, _, _)
RECURSIVE Decoder_skipElems(_, _, _, _, _)
RECURSIVE Decoder_skipEntries(_, _, _, _, _)
RECURSIVE Decoder_skipFields(_, _, _, _)

\* the element loop of the Slice/Array case: decode into the slots there
\* are, skip the elements beyond them; both results are dropped
Decoder_valueElems(c, t, v, i, size) ==
    IF c.fault \/ ~(i < size) THEN Nil(c, v)
    ELSE IF i < Len(v)
         THEN Let(Decoder_value(c, t.e, v[i + 1]), LAMBDA r :
                Decoder_valueElems(r.c, t, [v EXCEPT ![i + 1] = r.v], i + 1, size))
         ELSE Decoder_valueElems(Decoder_skipByType(c, t.e).c, t, v, i + 1, size)

\* the Slice/Array case after boolArray declined, once the count is read
Decoder_valueSized(c, t, old, size) ==
    IF c.fault THEN Nil(c, old)
    ELSE IF size > MaxCount THEN Nil(OutOfBounds(c), old)
    ELSE IF t.k = "Slice" /\ size < 0 THEN Nil(Fault(c, "runtime"), old)
    ELSE Decoder_valueElems(c, t, IF t.k = "Slice" THEN MakeSlice(t, size) ELSE old,
                            0, size)

\* case reflect.Slice, reflect.Array
Decoder_valueSlice(c, t, old) ==
    Let(Decoder_boolArray(c, t, old), LAMBDA ba :
        IF ba.c.fault \/ ~(ba.n < 0) THEN Nil(ba.c, ba.v)
        ELSE Let(Decoder_Uvarint(ba.c), LAMBDA u :
                 Decoder_valueSized(u.c, t, ba.v, ToInt(u.x))))

\* the entry loop of the Map case; the errors of both decodes are dropped
Decoder_valueEntries(c, t, m, i, size) ==
    IF c.fault \/ ~(i < size) THEN Nil(c, m)
    ELSE Let(Decoder_value(c, t.key, Zero(t.key)), LAMBDA key :
         Let(Decoder_value(key.c, t.e, Zero(t.e)), LAMBDA value :
           IF value.c.fault THEN Nil(value.c, m)
           ELSE Decoder_valueEntries(value.c, t, SetMapIndex(m, key.v, value.v),
                                     i + 1, size)))

\* the Map case once the count is read
Decoder_valueMapOf(c, t, old, size) ==
    IF c.fault THEN Nil(c, old)
    ELSE IF size > MaxCount THEN Nil(OutOfBounds(c), old)
    ELSE Decoder_valueEntries(c, t, <<>>, 0, size)

\* case reflect.Map
Decoder_valueMap(c, t, old) ==
    Let(Decoder_Uvarint(c), LAMBDA u : Decoder_valueMapOf(u.c, t, old, ToInt(u.x)))

RECURSIVE Decoder_valueFields_skipping(_, _, _, _)
\* the Struct loop with the bytes of an excluded field skipped
Decoder_valueFields_skipping(c, t, v, i) ==
    IF c.fault \/ ~(i < Len(t.f)) THEN Nil(c, v)
    ELSE IF validField(t.f[i + 1])
         THEN Let(Decoder_value(c, t.f[i + 1].t, v[i + 1]), LAMBDA r :
                Decoder_valueFields_skipping(r.c, t, [v EXCEPT ![i + 1] = r.v], i + 1))
         ELSE Decoder_valueFields_skipping(Decoder_skipByType(c, t.f[i + 1].t).c, t, v, i + 1)

\* case reflect.Struct: the field loop; the error of a field is dropped
Decoder_valueFields(c, t, v, i) ==
    IF c.fault \/ ~(i < Len(t.f)) THEN Nil(c, v)
    ELSE IF validField(t.f[i + 1])
         THEN Let(Decoder_value(c, t.f[i + 1].t, v[i + 1]), LAMBDA r :
                Decoder_valueFields(r.c, t, [v EXCEPT ![i + 1] = r.v], i + 1))
         ELSE Decoder_valueFields(c, t, v, i + 1)

\* the default case once newPtr has answered
Decoder_valuePtr(c, t, old, p) ==
    IF p.ok
    THEN Let(Decoder_value(c, t.e, p.v[1]), LAMBDA r :
             [c |-> r.c, v |-> <<r.v>>, err |-> r.err])
    ELSE [c |-> c, v |-> old, err |-> "unsupported"]

Decoder_value(c, t, old) ==
    IF c.fault THEN Nil(c, old)
    ELSE CASE t.k = "Int" -> Set(old, Decoder_Int(c))
           [] t.k = "Uint" -> Set(old, Decoder_Uint(c))
           [] t.k = "Bool" -> Set(old, Decoder_Bool(c))
           [] t.k = "Int8" -> Set(old, Decoder_Int8(c))
           [] t.k = "Uint8" -> Set(old, Decoder_Uint8(c))
           [] t.k = "Uint16" -> Set(old, Decoder_Uint16(c))
           [] t.k = "Uint32" -> Set(old, Decoder_Uint32(c))
           [] t.k = "Uint64" -> Set(old, Decoder_Uint64(c))
           [] t.k = "Float32" -> Set(old, Decoder_Float32(c))
           [] t.k = "Float64" -> Set(old, Decoder_Float64(c))
           [] t.k = "Complex64" -> Set(old, Decoder_Complex64(c))
           [] t.k = "Complex128" -> Set(old, Decoder_Complex128(c))
           [] t.k = "String" -> Set(old, Decoder_String(c))
           [] t.k \in {"Slice", "Array"} -> Decoder_valueSlice(c, t, old)
           [] t.k = "Map" -> Decoder_valueMap(c, t, old)
           [] t.k = "Struct" -> Decoder_valueFields(c, t, old, 0)
           [] OTHER -> Decoder_valuePtr(c, t, old, newPtr(t, old))

\* the cursor after this.Skip(size), with n returned
Skipped(r, n) == [c |-> r.c, n |-> n]

\* the loop of skipByType over elements of no fixed size
Decoder_skipElems(c, e, i, n, sum) ==
    IF c.fault \/ ~(i < n) THEN [c |-> c, n |-> sum]
    ELSE Let(Decoder_skipByType(c, e), LAMBDA s :
           IF s.n < 0 THEN [c |-> s.c, n |-> 0 - 1]
           ELSE Decoder_skipElems(s.c, e, i + 1, n, sum + s.n))

\* the loop of skipByType over the entries of a mapping
Decoder_skipEntries(c, t, i, n, sum) ==
    IF c.fault \/ ~(i < n) THEN [c |-> c, n |-> sum]
    ELSE Let(Decoder_skipByType(c, t.key), LAMBDA sk :
         Let(Decoder_skipByType(sk.c, t.e), LAMBDA sv :
           Decoder_skipEntries(sv.c, t, i + 1, n, sum + sk.n + sv.n)))

\* the loop of skipByType over the fields of a record
Decoder_skipFields(c, t, i, sum) ==
    IF c.fault \/ ~(i < Len(t.f)) THEN [c |-> c, n |-> sum]
    ELSE Let(Decoder_skipByType(c, t.f[i + 1].t), LAMBDA s :
           IF s.n < 0 THEN [c |-> s.c, n |-> 0 - 1]
           ELSE Decoder_skipFields(s.c, t, i + 1, sum + s.n))

\* case reflect.String once the length is read
Decoder_skipString(u, size) == Skipped(Decoder_Skip(u.c, size), size + u.n)

\* case reflect.Slice, reflect.Array once the count is read (u) with
\* s the fixed size of the element
Decoder_skipSlice(u, t, cnt, s) ==
    IF s > 0
    THEN IF t.e.k = "Bool"
         THEN Skipped(Decoder_Skip(u.c, sizeofBoolArray(cnt) - SizeofUvarint(cnt)),
                      sizeofBoolArray(cnt))
         ELSE Skipped(Decoder_Skip(u.c, cnt * s), cnt * s)
    ELSE IF u.c.fault THEN [c |-> u.c, n |-> 0]
    ELSE IF cnt > MaxCount THEN [c |-> OutOfBounds(u.c), n |-> 0]
    ELSE Decoder_skipElems(u.c, t.e, 0, cnt, u.n)

\* case reflect.Map once the count is read
Decoder_skipMap(u, t, cnt) ==
    IF u.c.fault THEN [c |-> u.c, n |-> 0]
    ELSE IF cnt > MaxCount THEN [c |-> OutOfBounds(u.c), n |-> 0]
    ELSE Decoder_skipEntries(u.c, t, 0, cnt, u.n)

Decoder_skipByType(c, t) ==
    IF c.fault THEN [c |-> c, n |-> 0]
    ELSE IF _fixTypeSize(t) > 0
    THEN Skipped(Decoder_Skip(c, _fixTypeSize(t)), _fixTypeSize(t))
    ELSE CASE t.k = "Int" -> Let(Decoder_Varint(c), LAMBDA r : [c |-> r.c, n |-> r.n])
           [] t.k = "Uint" -> Let(Decoder_Uvarint(c), LAMBDA r : [c |-> r.c, n |-> r.n])
           [] t.k = "String" ->
                Let(Decoder_Uvarint(c), LAMBDA u : Decoder_skipString(u, ToInt(u.x)))
           [] t.k \in {"Slice", "Array"} ->
                Let(Decoder_Uvarint(c), LAMBDA u :
                    Decoder_skipSlice(u, t, ToInt(u.x), _fixTypeSize(t.e)))
           [] t.k = "Map" ->
                Let(Decoder_Uvarint(c), LAMBDA u : Decoder_skipMap(u, t, ToInt(u.x)))
           [] t.k = "Struct" -> Decoder_skipFields(c, t, 0, 0)
           [] OTHER -> [c |-> c, n |-> 0 - 1]

\* the scalar and text kinds fastValue has a case for
Decoder_fastKinds ==
    {"Int", "Uint", "Bool", "Int8", "Uint8", "Uint16", "Uint32", "Float32",
     "Uint64", "Float64", "Complex64", "Complex128", "String"}

RECURSIVE Decoder_fastBools(_, _, _, _, _)
\* the loop of the *[]bool case of fastValue
Decoder_fastBools(c, v, i, l, b) ==
    IF c.fault \/ ~(i < l) THEN [c |-> c, v |-> v]
    ELSE Let(IF i % 8 = 0 THEN Decoder_reserve(c, 1) ELSE [c |-> c, b |-> <<b>>],
             LAMBDA r :
               IF r.c.fault THEN [c |-> r.c, v |-> v]
               ELSE Decoder_fastBools(r.c, [v EXCEPT ![i + 1] = TestBit(r.b[1], i % 8)],
                                      i + 1, l, r.b[1]))

\* *d = this.Xxx() of the scalar and text cases of fastValue
Decoder_fastScalar(c, k, old) ==
    CASE k = "Int" -> Set(old, Decoder_Int(c))
      [] k = "Uint" -> Set(old, Decoder_Uint(c))
      [] k = "Bool" -> Set(old, Decoder_Bool(c))
      [] k = "Int8" -> Set(old, Decoder_Int8(c))
      [] k = "Uint8" -> Set(old, Decoder_Uint8(c))
      [] k = "Uint16" -> Set(old, Decoder_Uint16(c))
      [] k = "Uint32" -> Set(old, Decoder_Uint32(c))
      [] k = "Float32" -> Set(old, Decoder_Float32(c))
      [] k = "Uint64" -> Set(old, Decoder_Uint64(c))
      [] k = "Float64" -> Set(old, Decoder_Float64(c))
      [] k = "Complex64" -> Set(old, Decoder_Complex64(c))
      [] k = "Complex128" -> Set(old, Decoder_Complex128(c))
      [] k = "String" -> Set(old, Decoder_String(c))

RECURSIVE Decoder_fastElems(_, _, _, _, _)
\* the loop of the *[]T cases of fastValue
Decoder_fastElems(c, k, v, i, l) ==
    IF c.fault \/ ~(i < l) THEN [c |-> c, v |-> v]
    ELSE Let(Decoder_fastScalar(c, k, v[i + 1]), LAMBDA r :
           Decoder_fastElems(r.c, k, [v EXCEPT ![i + 1] = r.v], i + 1, l))

\* a slice case of fastValue once the length is read
Decoder_fastSlice(c, t, old, l) ==
    IF c.fault THEN [c |-> c, v |-> old]
    ELSE IF l > MaxCount THEN [c |-> OutOfBounds(c), v |-> old]
    ELSE IF l < 0 THEN [c |-> Fault(c, "runtime"), v |-> old]
    ELSE IF t.e.k = "Bool" THEN Decoder_fastBools(c, MakeSlice(t, l), 0, l, 0)
    ELSE Decoder_fastElems(c, t.e.k, MakeSlice(t, l), 0, l)

\* fastValue(x) for x a pointer (a.ptr) to a destination of shape a.t that
\* holds old; a.named tells a defined type, which no case of the type switch
\* matches.  ok is the bool returned
Decoder_fastValue(c, a, old) ==
    IF ~a.ptr \/ a.named THEN [c |-> c, v |-> old, ok |-> FALSE]
    ELSE IF a.t.k \in Decoder_fastKinds
    THEN Let(Decoder_fastScalar(c, a.t.k, old), LAMBDA r :
             [c |-> r.c, v |-> r.v, ok |-> TRUE])
    ELSE IF a.t.k = "Slice" /\ a.t.e.k \in Decoder_fastKinds
    THEN Let(Decoder_Uvarint(c), LAMBDA u :
         Let(Decoder_fastSlice(u.c, a.t, old, ToInt(u.x)), LAMBDA r :
             [c |-> r.c, v |-> r.v, ok |-> TRUE]))
    ELSE [c |-> c, v |-> old, ok |-> FALSE]

\* Value after fastValue returned false
Decoder_ValueSlow(c, a, old) ==
    IF a.ptr
    THEN Let(Decoder_value(c, Ptr(a.t), <<old>>), LAMBDA r :
             [c |-> r.c, v |-> r.v[1], err |-> IF r.c.fault THEN "EOF" ELSE r.err])
    ELSE [c |-> c, v |-> old, err |-> "nonpointer"]

\* Value without the deferred recover: a panic leaves it as a panic
Decoder_Value_norecover(c, a, old) ==
    Let(Decoder_fastValue(c, a, old), LAMBDA f :
        IF f.c.fault THEN [c |-> f.c, v |-> f.v, err |-> "panic"]
        ELSE IF f.ok THEN Nil(f.c, f.v)
        ELSE Let(Decoder_ValueSlow(c, a, old), LAMBDA r :
                   IF r.c.fault THEN [r EXCEPT !.err = "panic"] ELSE r))

\* Value(x): the deferred recover turns every panic into io.ErrUnexpectedEOF
Decoder_Value(c, a, old) ==
    Let(Decoder_fastValue(c, a, old), LAMBDA f :
        IF f.c.fault THEN [c |-> f.c, v |-> f.v, err |-> "EOF"]
        ELSE IF f.ok THEN Nil(f.c, f.v)
        ELSE Decoder_ValueSlow(c, a, old))

(***************************************************************************)
(* The decoderReader: the same routines over the stream cursor.  It has no *)
(* Int and no Uint case, its skipByType returns other counts for text and  *)
(* sizes a bool sequence from the prefix length read, its newPtr allocates *)
(* for a nil reference only, and nothing recovers its panics.              *)
(***************************************************************************)
decoderReader_newPtr(t, old) ==
    IF t.k = "Ptr" /\ Len(old) = 0
    THEN IF t.e.k \in PtrKinds
         THEN [ok |-> TRUE, v |-> <<Zero(t.e)>>]
         ELSE [ok |-> FALSE, v |-> old]
    ELSE [ok |-> FALSE, v |-> old]

RECURSIVE decoderReader_boolLoop(_, _, _, _, _)
\* the loop of boolArray at index i; b is the data byte reserved last.
\* v.Index(i) panics beyond the capacity of an array
decoderReader_boolLoop(c, v, i, l, b) ==
    IF c.fault \/ ~(i < l) THEN [c |-> c, v |-> v]
    ELSE Let(IF i % 8 = 0 THEN decoderReader_reserve(c, 1) ELSE [c |-> c, b |-> <<b>>],
             LAMBDA r :
               IF r.c.fault THEN [c |-> r.c, v |-> v]
               ELSE IF ~(i < Len(v)) THEN [c |-> Fault(r.c, "runtime"), v |-> v]
               ELSE decoderReader_boolLoop(r.c, [v EXCEPT ![i + 1] = TestBit(r.b[1], i % 8)],
                                     i + 1, l, r.b[1]))

\* boolArray once the count l is read
decoderReader_boolArrayOf(c, t, old, l) ==
    IF c.fault THEN [c |-> c, v |-> old, n |-> 0]
    ELSE IF l > MaxCount THEN [c |-> OutOfBounds(c), v |-> old, n |-> 0]
    ELSE Let(decoderReader_boolLoop(c, IF t.k = "Slice" /\ l > 0 THEN MakeSlice(t, l) ELSE old,
                              0, l, 0),
             LAMBDA r : [c |-> r.c, v |-> r.v, n |-> sizeofBoolArray(l)])

decoderReader_boolArray(c, t, old) ==
    IF t.k \in {"Slice", "Array"} /\ t.e.k = "Bool"
    THEN Let(decoderReader_Uvarint(c), LAMBDA u : decoderReader_boolArrayOf(u.c, t, old, ToInt(u.x)))
    ELSE [c |-> c, v |-> old, n |-> 0 - 1]

RECURSIVE decoderReader_value(_, _, _)
RECURSIVE decoderReader_skipByType(_, _)
RECURSIVE decoderReader_valueElems(_, _, _, _, _)
RECURSIVE decoderReader_valueEntries(_, _, _, _, _)
RECURSIVE decoderReader_valueFields(_, _, _, _)
RECURSIVE decoderReader_skipElems(_, _, _, _, _)
RECURSIVE decoderReader_skipEntries(_, _, _, _, _)
RECURSIVE decoderReader_skipFields(_, _, _, _)

\* the element loop of the Slice/Array case: decode into the slots there
\* are, skip the elements beyond them; both results are dropped
decoderReader_valueElems(c, t, v, i, size) ==
    IF c.fault \/ ~(i < size) THEN Nil(c, v)
    ELSE IF i < Len(v)
         THEN Let(decoderReader_value(c, t.e, v[i + 1]), LAMBDA r :
                decoderReader_valueElems(r.c, t, [v EXCEPT ![i + 1] = r.v], i + 1, size))
         ELSE decoderReader_valueElems(decoderReader_skipByType(c, t.e).c, t, v, i + 1, size)

\* the Slice/Array case after boolArray declined, once the count is read
decoderReader_valueSized(c, t, old, size) ==
    IF c.fault THEN Nil(c, old)
    ELSE IF size > MaxCount THEN Nil(OutOfBounds(c), old)
    ELSE IF t.k = "Slice" /\ size < 0 THEN Nil(Fault(c, "runtime"), old)
    ELSE decoderReader_valueElems(c, t, IF t.k = "Slice" THEN MakeSlice(t, size) ELSE old,
                            0, size)

\* case reflect.Slice, reflect.Array
decoderReader_valueSlice(c, t, old) ==
    Let(decoderReader_boolArray(c, t, old), LAMBDA ba :
        IF ba.c.fault \/ ~(ba.n < 0) THEN Nil(ba.c, ba.v)
        ELSE Let(decoderReader_Uvarint(ba.c), LAMBDA u :
                 decoderReader_valueSized(u.c, t, ba.v, ToInt(u.x))))

\* the entry loop of the Map case; the errors of both decodes are dropped
decoderReader_valueEntries(c, t, m, i, size) ==
    IF c.fault \/ ~(i < size) THEN Nil(c, m)
    ELSE Let(decoderReader_value(c, t.key, Zero(t.key)), LAMBDA key :
         Let(decoderReader_value(key.c, t.e, Zero(t.e)), LAMBDA value :
           IF value.c.fault THEN Nil(value.c, m)
           ELSE decoderReader_valueEntries(value.c, t, SetMapIndex(m, key.v, value.v),
                                     i + 1, size)))

\* the Map case once the count is read
decoderReader_valueMapOf(c, t, old, size) ==
    IF c.fault THEN Nil(c, old)
    ELSE IF size > MaxCount THEN Nil(OutOfBounds(c), old)
    ELSE decoderReader_valueEntries(c, t, <<>>, 0, size)

\* case reflect.Map
decoderReader_valueMap(c, t, old) ==
    Let(decoderReader_Uvarint(c), LAMBDA u : decoderReader_valueMapOf(u.c, t, old, ToInt(u.x)))

\* case reflect.Struct: the field loop; the error of a field is dropped
decoderReader_valueFields(c, t, v, i) ==
    IF c.fault \/ ~(i < Len(t.f)) THEN Nil(c, v)
    ELSE IF validField(t.f[i + 1])
         THEN Let(decoderReader_value(c, t.f[i + 1].t, v[i + 1]), LAMBDA r :
                decoderReader_valueFields(r.c, t, [v EXCEPT ![i + 1] = r.v], i + 1))
         ELSE decoderReader_valueFields(c, t, v, i + 1)

\* the default case once newPtr has answered
decoderReader_valuePtr(c, t, old, p) ==
    IF p.ok
    THEN Let(decoderReader_value(c, t.e, p.v[1]), LAMBDA r :
             [c |-> r.c, v |-> <<r.v>>, err |-> r.err])
    ELSE [c |-> c, v |-> old, err |-> "unsupported"]

decoderReader_value(c, t, old) ==
    IF c.fault THEN Nil(c, old)
    ELSE CASE t.k = "Bool" -> Set(old, decoderReader_Bool(c))
           [] t.k = "Int8" -> Set(old, decoderReader_Int8(c))
           [] t.k = "Uint8" -> Set(old, decoderReader_Uint8(c))
           [] t.k = "Uint16" -> Set(old, decoderReader_Uint16(c))
           [] t.k = "Uint32" -> Set(old, decoderReader_Uint32(c))
           [] t.k = "Uint64" -> Set(old, decoderReader_Uint64(c))
           [] t.k = "Float32" -> Set(old, decoderReader_Float32(c))
           [] t.k = "Float64" -> Set(old, decoderReader_Float64(c))
           [] t.k = "Complex64" -> Set(old, decoderReader_Complex64(c))
           [] t.k = "Complex128" -> Set(old, decoderReader_Complex128(c))
           [] t.k = "String" -> Set(old, decoderReader_String(c))
           [] t.k \in {"Slice", "Array"} -> decoderReader_valueSlice(c, t, old)
           [] t.k = "Map" -> decoderReader_valueMap(c, t, old)
           [] t.k = "Struct" -> decoderReader_valueFields(c, t, old, 0)
           [] OTHER -> decoderReader_valuePtr(c, t, old, decoderReader_newPtr(t, old))

\* the loop of skipByType over elements of no fixed size
decoderReader_skipElems(c, e, i, n, sum) ==
    IF c.fault \/ ~(i < n) THEN [c |-> c, n |-> sum]
    ELSE Let(decoderReader_skipByType(c, e), LAMBDA s :
           IF s.n < 0 THEN [c |-> s.c, n |-> 0 - 1]
           ELSE decoderReader_skipElems(s.c, e, i + 1, n, sum + s.n))

\* the loop of skipByType over the entries of a mapping
decoderReader_skipEntries(c, t, i, n, sum) ==
    IF c.fault \/ ~(i < n) THEN [c |-> c, n |-> sum]
    ELSE Let(decoderReader_skipByType(c, t.key), LAMBDA sk :
         Let(decoderReader_skipByType(sk.c, t.e), LAMBDA sv :
           decoderReader_skipEntries(sv.c, t, i + 1, n, sum + sk.n + sv.n)))

\* the loop of skipByType over the fields of a record
decoderReader_skipFields(c, t, i, sum) ==
    IF c.fault \/ ~(i < Len(t.f)) THEN [c |-> c, n |-> sum]
    ELSE Let(decoderReader_skipByType(c, t.f[i + 1].t), LAMBDA s :
           IF s.n < 0 THEN [c |-> s.c, n |-> 0 - 1]
           ELSE decoderReader_skipFields(s.c, t, i + 1, sum + s.n))

\* case reflect.String once the length is read
decoderReader_skipString(u, size) == Skipped(decoderReader_Skip(u.c, size), size)

\* case reflect.Slice, reflect.Array once the count is read (u) with
\* s the fixed size of the element
decoderReader_skipSlice(u, t, cnt, s) ==
    IF s > 0
    THEN IF t.e.k = "Bool"
         THEN Skipped(decoderReader_Skip(u.c, sizeofBoolArray(cnt) - u.n),
                      sizeofBoolArray(cnt))
         ELSE Skipped(decoderReader_Skip(u.c, cnt * s), cnt * s)
    ELSE IF u.c.fault THEN [c |-> u.c, n |-> 0]
    ELSE IF cnt > MaxCount THEN [c |-> OutOfBounds(u.c), n |-> 0]
    ELSE decoderReader_skipElems(u.c, t.e, 0, cnt, u.n)

\* case reflect.Map once the count is read
decoderReader_skipMap(u, t, cnt) ==
    IF u.c.fault THEN [c |-> u.c, n |-> 0]
    ELSE IF cnt > MaxCount THEN [c |-> OutOfBounds(u.c), n |-> 0]
    ELSE decoderReader_skipEntries(u.c, t, 0, cnt, u.n)

decoderReader_skipByType(c, t) ==
    IF c.fault THEN [c |-> c, n |-> 0]
    ELSE IF _fixTypeSize(t) > 0
    THEN Skipped(decoderReader_Skip(c, _fixTypeSize(t)), _fixTypeSize(t))
    ELSE CASE t.k = "String" ->
                Let(decoderReader_Uvarint(c), LAMBDA u : decoderReader_skipString(u, ToInt(u.x)))
           [] t.k \in {"Slice", "Array"} ->
                Let(decoderReader_Uvarint(c), LAMBDA u :
                    decoderReader_skipSlice(u, t, ToInt(u.x), _fixTypeSize(t.e)))
           [] t.k = "Map" ->
                Let(decoderReader_Uvarint(c), LAMBDA u : decoderReader_skipMap(u, t, ToInt(u.x)))
           [] t.k = "Struct" -> decoderReader_skipFields(c, t, 0, 0)
           [] OTHER -> [c |-> c, n |-> 0 - 1]

\* the scalar and text kinds fastValue has a case for
decoderReader_fastKinds ==
    {"Bool", "Int8", "Uint8", "Uint16", "Uint32", "Float32",
     "Uint64", "Float64", "Complex64", "Complex128", "String"}

RECURSIVE decoderReader_fastBools(_, _, _, _, _)
\* the loop of the *[]bool case of fastValue
decoderReader_fastBools(c, v, i, l, b) ==
    IF c.fault \/ ~(i < l) THEN [c |-> c, v |-> v]
    ELSE Let(IF i % 8 = 0 THEN decoderReader_reserve(c, 1) ELSE [c |-> c, b |-> <<b>>],
             LAMBDA r :
               IF r.c.fault THEN [c |-> r.c, v |-> v]
               ELSE decoderReader_fastBools(r.c, [v EXCEPT ![i + 1] = TestBit(r.b[1], i % 8)],
                                      i + 1, l, r.b[1]))

\* *d = this.Xxx() of the scalar and text cases of fastValue
decoderReader_fastScalar(c, k, old) ==
    CASE k = "Bool" -> Set(old, decoderReader_Bool(c))
      [] k = "Int8" -> Set(old, decoderReader_Int8(c))
      [] k = "Uint8" -> Set(old, decoderReader_Uint8(c))
      [] k = "Uint16" -> Set(old, decoderReader_Uint16(c))
      [] k = "Uint32" -> Set(old, decoderReader_Uint32(c))
      [] k = "Float32" -> Set(old, decoderReader_Float32(c))
      [] k = "Uint64" -> Set(old, decoderReader_Uint64(c))
      [] k = "Float64" -> Set(old, decoderReader_Float64(c))
      [] k = "Complex64" -> Set(old, decoderReader_Complex64(c))
      [] k = "Complex128" -> Set(old, decoderReader_Complex128(c))
      [] k = "String" -> Set(old, decoderReader_String(c))

RECURSIVE decoderReader_fastElems(_, _, _, _, _)
\* the loop of the *[]T cases of fastValue
decoderReader_fastElems(c, k, v, i, l) ==
    IF c.fault \/ ~(i < l) THEN [c |-> c, v |-> v]
    ELSE Let(decoderReader_fastScalar(c, k, v[i + 1]), LAMBDA r :
           decoderReader_fastElems(r.c, k, [v EXCEPT ![i + 1] = r.v], i + 1, l))

\* a slice case of fastValue once the length is read
decoderReader_fastSlice(c, t, old, l) ==
    IF c.fault THEN [c |-> c, v |-> old]
    ELSE IF l > MaxCount THEN [c |-> OutOfBounds(c), v |-> old]
    ELSE IF l < 0 THEN [c |-> Fault(c, "runtime"), v |-> old]
    ELSE IF t.e.k = "Bool" THEN decoderReader_fastBools(c, MakeSlice(t, l), 0, l, 0)
    ELSE decoderReader_fastElems(c, t.e.k, MakeSlice(t, l), 0, l)

\* fastValue(x) for x a pointer (a.ptr) to a destination of shape a.t that
\* holds old; a.named tells a defined type, which no case of the type switch
\* matches.  ok is the bool returned
decoderReader_fastValue(c, a, old) ==
    IF ~a.ptr \/ a.named THEN [c |-> c, v |-> old, ok |-> FALSE]
    ELSE IF a.t.k \in decoderReader_fastKinds
    THEN Let(decoderReader_fastScalar(c, a.t.k, old), LAMBDA r :
             [c |-> r.c, v |-> r.v, ok |-> TRUE])
    ELSE IF a.t.k = "Slice" /\ a.t.e.k \in decoderReader_fastKinds
    THEN Let(decoderReader_Uvarint(c), LAMBDA u :
         Let(decoderReader_fastSlice(u.c, a.t, old, ToInt(u.x)), LAMBDA r :
             [c |-> r.c, v |-> r.v, ok |-> TRUE]))
    ELSE [c |-> c, v |-> old, ok |-> FALSE]

\* Value after fastValue returned false
decoderReader_ValueSlow(c, a, old) ==
    IF a.ptr
    THEN Let(decoderReader_value(c, a.t, old), LAMBDA r :
             [c |-> r.c, v |-> r.v, err |-> IF r.c.fault THEN "panic" ELSE r.err])
    ELSE [c |-> c, v |-> old, err |-> "nonpointer"]

\* Value(x): nothing recovers a panic, which leaves Value as a panic
decoderReader_Value(c, a, old) ==
    Let(decoderReader_fastValue(c, a, old), LAMBDA f :
        IF f.c.fault THEN [c |-> f.c, v |-> f.v, err |-> "panic"]
        ELSE IF f.ok THEN Nil(f.c, f.v)
        ELSE decoderReader_ValueSlow(c, a, old))

(***************************************************************************)
(* Inputs, destinations and the state machine.                             *)
(***************************************************************************)
\* the byte values inputs are made of: counts 0, 1, 2 and 9, and a byte
\* with the continuation bit
Alphabet == {0, 1, 2, 9, 128}

\* the byte order NewDecoder gives a decoder
DefaultEndian == "LE"

SeqsUpTo(S, n) == UNION {[1..m -> S] : m \in 0..n}

\* n continuation bytes with payload 0
Cont(n) == [i \in 1..n |-> 128]

\* ten-byte varints: bit 63 set, the tenth byte too large, no last byte
LongVarints == {Cont(9) \o <<1>>, Cont(9) \o <<2>>, Cont(10)}

Inputs ==
    SeqsUpTo(Alphabet, MaxLen)
      \cup {p \o t : p \in LongVarints, t \in SeqsUpTo({1, 2}, MaxTail)}

U8 == Scalar("Uint8")
Bool == Scalar("Bool")
Chan == Scalar("Chan")

\* a record with an excluded field first, between included fields, last
RecMid == Struct(<<Field(U8), Excluded(U8), Field(U8)>>)
RecFirst == Struct(<<Excluded(U8), Field(U8)>>)
RecLast == Struct(<<Field(U8), Excluded(U8)>>)

\* the destination shapes of the model
Shapes ==
    {Bool, U8, Scalar("Int8"), Scalar("Uint16"), Scalar("Uint64"),
     Scalar("Complex64"), Scalar("Int"), Scalar("Uint"), Scalar("String"),
     Slice(Bool), Array(Bool, 2), Array(Bool, 9), Slice(U8), Array(U8, 1),
     Slice(Scalar("Int")), Array(Scalar("Int"), 1), Slice(Scalar("String")),
     Array(Scalar("String"), 1), Array(Slice(Bool), 1),
     Map(U8, U8), Map(U8, Ptr(U8)), Map(U8, Chan),
     RecMid, RecFirst, RecLast, Array(RecLast, 1), Slice(RecMid),
     Struct(<<Field(Scalar("Int")), Field(U8)>>),
     Struct(<<Field(Slice(Bool)), Field(Ptr(U8))>>),
     Ptr(U8), Array(Ptr(U8), 1),
     Chan, Slice(Chan), Array(Chan, 1), Struct(<<Field(U8), Field(Chan)>>)}

\* the arguments of Value: a pointer to a destination of each shape, a
\* pointer to a defined type, and a destination passed by value
Args ==
    {[ptr |-> TRUE, named |-> FALSE, t |-> t] : t \in Shapes}
      \cup {[ptr |-> TRUE, named |-> TRUE, t |-> t] : t \in {U8, Slice(Bool)}}
      \cup {[ptr |-> FALSE, named |-> FALSE, t |-> U8]}

RECURSIVE Dirty(_)
\* a destination that holds earlier content: no slot at its zero value, no
\* reference nil
Dirty(t) ==
    CASE t.k = "Bool" -> TRUE
      [] t.k = "Int8" -> 0 - 18
      [] t.k = "Uint8" -> 238
      [] t.k = "Uint16" -> <<238, 238>>
      [] t.k = "Uint32" -> <<238, 238, 238, 238>>
      [] t.k = "Uint64" -> <<238, 238, 238, 238, 238, 238, 238, 238>>
      [] t.k = "Float32" -> [bits |-> <<238, 238, 238, 238>>]
      [] t.k = "Float64" -> [bits |-> <<238, 238, 238, 238, 238, 238, 238, 238>>]
      [] t.k = "Complex64" ->
            [re |-> [bits |-> <<238, 238, 238, 238>>],
             im |-> [bits |-> <<238, 238, 238, 238>>]]
      [] t.k = "Complex128" ->
            [re |-> [bits |-> <<238, 238, 238, 238, 238, 238, 238, 238>>],
             im |-> [bits |-> <<238, 238, 238, 238, 238, 238, 238, 238>>]]
      [] t.k = "Int" -> ToVarint([i \in 1..10 |-> IF i = 1 THEN 110 ELSE 0])
      [] t.k = "Uint" -> [i \in 1..10 |-> IF i = 1 THEN 110 ELSE 0]
      [] t.k = "String" -> <<238>>
      [] t.k = "Slice" -> <<Dirty(t.e), Dirty(t.e)>>
      [] t.k = "Array" -> [i \in 1..t.n |-> Dirty(t.e)]
      [] t.k = "Map" -> <<<<Dirty(t.key), Dirty(t.e)>>>>
      [] t.k = "Struct" -> [i \in 1..Len(t.f) |-> Dirty(t.f[i].t)]
      [] t.k = "Ptr" -> <<Dirty(t.e)>>
      [] OTHER -> <<>>

Backends == {"buffer", "stream", "reader"}

\* the decoder each backend constructs over the input: a Decoder over the
\* byte buffer, a Decoder over a reader, a decoderReader (whose Init makes a
\* scratch buffer of 16 bytes)
NewDecoder(be, data) ==
    NewCursor(data, be # "buffer", IF be = "reader" THEN ScratchLen ELSE 0, DefaultEndian)

Init ==
    /\ buff \in Inputs
    /\ backend \in Backends
    /\ x \in Args
    /\ prior \in {Zero(x.t), Dirty(x.t)}
    /\ dst = prior
    /\ d = NewDecoder(backend, buff)
    /\ call = "none"
    /\ err = "nil"
    /\ ret = 0

\* Decoder.Value(x)
DecoderValue ==
    /\ call = "none"
    /\ backend \in {"buffer", "stream"}
    /\ LET r == Decoder_Value(d, x, dst)
       IN /\ ~r.c.oob
          /\ d' = r.c
          /\ dst' = r.v
          /\ err' = r.err
    /\ call' = "Value"
    /\ UNCHANGED <<buff, backend, x, prior, ret>>

\* Decoder.skipByType(t) for the shape of the argument
DecoderSkipByType ==
    /\ call = "none"
    /\ backend \in {"buffer", "stream"}
    /\ LET r == Decoder_skipByType(d, x.t)
       IN /\ ~r.c.oob
          /\ d' = r.c
          /\ ret' = r.n
          /\ err' = IF r.c.fault THEN "panic" ELSE "nil"
    /\ call' = "skipByType"
    /\ UNCHANGED <<buff, backend, x, prior, dst>>

\* decoderReader.Value(x)
ReaderValue ==
    /\ call = "none"
    /\ backend = "reader"
    /\ LET r == decoderReader_Value(d, x, dst)
       IN /\ ~r.c.oob
          /\ d' = r.c
          /\ dst' = r.v
          /\ err' = r.err
    /\ call' = "Value"
    /\ UNCHANGED <<buff, backend, x, prior, ret>>

\* decoderReader.skipByType(t) for the shape of the argument
ReaderSkipByType ==
    /\ call = "none"
    /\ backend = "reader"
    /\ LET r == decoderReader_skipByType(d, x.t)
       IN /\ ~r.c.oob
          /\ d' = r.c
          /\ ret' = r.n
          /\ err' = IF r.c.fault THEN "panic" ELSE "nil"
    /\ call' = "skipByType"
    /\ UNCHANGED <<buff, backend, x, prior, dst>>

Next ==
    \/ DecoderValue
    \/ DecoderSkipByType
    \/ ReaderValue
    \/ ReaderSkipByType

Spec == Init /\ [][Next]_vars

(***************************************************************************)
(* The varint codec on its own: inputs of up to ten continuation bytes,    *)
(* a last byte or none, and a tail.                                        *)
(***************************************************************************)
\* continuation bytes with payload 0 and with payload 127
ContBytes == {128, 255}

\* bytes with the high bit 0
LastBytes == {0, 1, 2, 127}

VarintInputs ==
    {p \o l \o t : p \in SeqsUpTo(ContBytes, MaxVarintLen64),
                   l \in {<<>>} \cup {<<b>> : b \in LastBytes},
                   t \in SeqsUpTo({1}, MaxVarTail)}

InitVarint ==
    /\ buff \in VarintInputs
    /\ backend \in Backends
    /\ x = [ptr |-> TRUE, named |-> FALSE, t |-> Scalar("Uint")]
    /\ prior = Zero64
    /\ dst = prior
    /\ d = NewDecoder(backend, buff)
    /\ call = "none"
    /\ err = "nil"
    /\ ret = 0

\* Decoder.Uvarint()
DecoderUvarint ==
    /\ call = "none"
    /\ backend \in {"buffer", "stream"}
    /\ LET r == Decoder_Uvarint(d)
       IN /\ d' = r.c
          /\ dst' = r.x
          /\ ret' = r.n
          /\ err' = IF r.c.fault THEN "panic" ELSE "nil"
    /\ call' = "Uvarint"
    /\ UNCHANGED <<buff, backend, x, prior>>

\* decoderReader.Uvarint()
ReaderUvarint ==
    /\ call = "none"
    /\ backend = "reader"
    /\ LET r == decoderReader_Uvarint(d)
       IN /\ d' = r.c
          /\ dst' = r.x
          /\ ret' = r.n
          /\ err' = IF r.c.fault THEN "panic" ELSE "nil"
    /\ call' = "Uvarint"
    /\ UNCHANGED <<buff, backend, x, prior>>

NextVarint ==
    \/ DecoderUvarint
    \/ ReaderUvarint

SpecVarint == InitVarint /\ [][NextVarint]_vars

(***************************************************************************)
(* The cursor on its own: reserve and Skip called in sequence on one       *)
(* decoder.  prior holds the cursor before the last call, ret the size     *)
(* asked for, dst the bytes reserve returned.                              *)
(***************************************************************************)
\* inputs whose bytes tell their position
CursorInputs == {[i \in 1..m |-> i] : m \in 0..MaxStream}

\* the sizes asked for: within the scratch buffer and one beyond it
Sizes == {0, 1, 2, ScratchLen + 1}

InitCursor ==
    /\ buff \in CursorInputs
    /\ backend \in Backends
    /\ x = [ptr |-> TRUE, named |-> FALSE, t |-> U8]
    /\ d = NewDecoder(backend, buff)
    /\ prior = d
    /\ dst = <<>>
    /\ call = "none"
    /\ err = "nil"
    /\ ret = 0

\* the cursor still serves calls
Usable == ~d.fault /\ Len(d.reads) < MaxCalls

\* Decoder.reserve(n)
DecoderReserve ==
    /\ Usable
    /\ backend \in {"buffer", "stream"}
    /\ \E n \in Sizes :
         LET r == Decoder_reserve(d, n)
         IN /\ d' = r.c
            /\ dst' = r.b
            /\ ret' = n
            /\ err' = IF r.c.fault THEN "panic" ELSE "nil"
    /\ prior' = d
    /\ call' = "reserve"
    /\ UNCHANGED <<buff, backend, x>>

\* Decoder.Skip(n)
DecoderSkip ==
    /\ Usable
    /\ backend \in {"buffer", "stream"}
    /\ \E n \in Sizes :
         LET r == Decoder_Skip(d, n)
         IN /\ d' = r.c
            /\ ret' = n
            /\ err' = IF r.c.fault THEN "panic" ELSE "nil"
    /\ dst' = <<>>
    /\ prior' = d
    /\ call' = "Skip"
    /\ UNCHANGED <<buff, backend, x>>

\* decoderReader.reserve(n)
ReaderReserve ==
    /\ Usable
    /\ backend = "reader"
    /\ \E n \in Sizes :
         LET r == decoderReader_reserve(d, n)
         IN /\ d' = r.c
            /\ dst' = r.b
            /\ ret' = n
            /\ err' = IF r.c.fault THEN "panic" ELSE "nil"
    /\ prior' = d
    /\ call' = "reserve"
    /\ UNCHANGED <<buff, backend, x>>

\* decoderReader.Skip(n)
ReaderSkip ==
    /\ Usable
    /\ backend = "reader"
    /\ \E n \in Sizes :
         LET r == decoderReader_Skip(d, n)
         IN /\ d' = r.c
            /\ ret' = n
            /\ err' = IF r.c.fault THEN "panic" ELSE "nil"
    /\ dst' = <<>>
    /\ prior' = d
    /\ call' = "Skip"
    /\ UNCHANGED <<buff, backend, x>>

NextCursor ==
    \/ DecoderReserve
    \/ DecoderSkip
    \/ ReaderReserve
    \/ ReaderSkip

SpecCursor == InitCursor /\ [][NextCursor]_vars

(***************************************************************************)
(* Properties of the varint codec, checked under SpecVarint.               *)
(***************************************************************************)
\* the cursor of a fresh decoder of the given backend over the input
Fresh(be) == NewDecoder(be, buff)

\* the position, within the first ten bytes, of the first byte with the high
\* bit 0; 0 when there is none
FirstStop(b) ==
    LET S == {k \in 1..Min(Len(b), MaxVarintLen64) : b[k] < 128}
    IN IF S = {} THEN 0 ELSE CHOOSE k \in S : \A j \in S : k <= j

\* the input overflows 64 bits: nine continuation bytes, then a tenth byte
\* that is a continuation byte too or has a payload above 1
Overflowing(b) ==
    /\ Len(b) >= MaxVarintLen64
    /\ \A i \in 1..(MaxVarintLen64 - 1) : b[i] >= 128
    /\ (b[MaxVarintLen64] >= 128 \/ b[MaxVarintLen64] % 128 > 1)

Groups(b, k) == [i \in 1..MaxVarintLen64 |-> IF i <= k THEN b[i] % 128 ELSE 0]

\* what the other implementation of Uvarint returns on the same input
OtherUvarint ==
    IF backend = "reader" THEN Decoder_Uvarint(Fresh("buffer"))
    ELSE decoderReader_Uvarint(Fresh("reader"))

\* C6: on an input whose first byte with the high bit 0 is the k-th, k <= 10,
\* the tenth byte's payload at most 1, Uvarint consumes exactly k bytes and
\* returns k and the value whose j-th 7-bit group is the payload of byte j;
\* and on every input Decoder.Uvarint and decoderReader.Uvarint return the
\* same pair, or both run out of input.
UvarintDecodesGroups ==
    call = "Uvarint" =>
        /\ LET k == FirstStop(buff)
           IN (k >= 1 /\ (k = MaxVarintLen64 => buff[k] <= 1))
                  => /\ err = "nil"
                     /\ d.pos = k
                     /\ ret = k
                     /\ dst = Groups(buff, k)
        /\ Let(OtherUvarint, LAMBDA o :
                 /\ o.c.fault <=> err = "panic"
                 /\ o.x = dst
                 /\ o.n = ret)

\* a ten-byte varint of a value above 2^63 has been decoded
UvarintDecodesGroupsWitness ==
    /\ call = "Uvarint"
    /\ FirstStop(buff) = MaxVarintLen64
    /\ buff[MaxVarintLen64] = 1
    /\ dst[1] = 127
    /\ dst[MaxVarintLen64] = 1
    /\ ret = MaxVarintLen64

(***************************************************************************)
(* Properties of Value and skipByType, checked under Spec.                 *)
(***************************************************************************)
\* Value of the backend's decoder, applied to a fresh decoder over the input
ValueOf(be, a, old) ==
    IF be = "reader" THEN decoderReader_Value(Fresh(be), a, old)
    ELSE Decoder_Value(Fresh(be), a, old)

\* value of the backend's decoder on a cursor
valueOf(be, c, t, old) ==
    IF be = "reader" THEN decoderReader_value(c, t, old) ELSE Decoder_value(c, t, old)

\* skipByType of the backend's decoder on a cursor
skipOf(be, c, t) ==
    IF be = "reader" THEN decoderReader_skipByType(c, t) ELSE Decoder_skipByType(c, t)

\* Uvarint of the backend's decoder on a cursor
uvarintOf(be, c) ==
    IF be = "reader" THEN decoderReader_Uvarint(c) ELSE Decoder_Uvarint(c)

RECURSIVE Supported(_)
\* the shapes the wire format encodes: scalars, text, sequences, mappings
\* and records of them, a record's excluded fields included
Supported(t) ==
    CASE t.k \in {"Slice", "Array"} -> Supported(t.e)
      [] t.k = "Map" -> Supported(t.key) /\ Supported(t.e)
      [] t.k = "Struct" -> \A i \in 1..Len(t.f) : Supported(t.f[i].t)
      [] t.k \in {"Ptr", "Chan"} -> FALSE
      [] OTHER -> TRUE

\* the input starts with nine continuation bytes: a varint of ten bytes
LongVarint(b) ==
    Len(b) >= MaxVarintLen64 /\ \A i \in 1..(MaxVarintLen64 - 1) : b[i] >= 128

\* C1: for every supported shape and every input on which decoding a value
\* of the shape succeeds, skipByType advances the cursor by exactly the
\* bytes the decode advances it (stated for Decoder, which has a rule for
\* each of these shapes, and for the inputs with no ten-byte varint).
SkipAdvancesAsValue ==
    (/\ call = "skipByType"
     /\ backend \in {"buffer", "stream"}
     /\ Supported(x.t)
     /\ ~LongVarint(buff))
        => Let(valueOf(backend, Fresh(backend), x.t, Zero(x.t)), LAMBDA v :
                 (~v.c.fault /\ ~v.c.oob /\ v.err = "nil")
                     => (err = "nil" /\ d.pos = v.c.pos))

\* the argument of Value for a sequence of the elements of array shape t
AsSlice(t) == [ptr |-> TRUE, named |-> FALSE, t |-> Slice(t.e)]

\* C2: when the destination is a fixed-capacity sequence of non-bool
\* elements and the encoded count exceeds its capacity c, Value decodes the
\* first c elements and leaves the cursor where decoding all of them into a
\* sequence of sufficient capacity leaves it.
CapacityLimitedDecodeAdvancesAsFull ==
    (call = "Value" /\ x.ptr /\ x.t.k = "Array" /\ x.t.e.k # "Bool")
        => Let(ValueOf(backend, AsSlice(x.t), <<>>), LAMBDA f :
                 (~f.c.oob /\ f.err = "nil" /\ Len(f.v) > x.t.n)
                     => /\ err = "nil"
                        /\ d.pos = f.c.pos
                        /\ prior = Zero(x.t)
                               => \A i \in 1..x.t.n : dst[i] = f.v[i])

\* the outcome of a call: what it returned, an escaped short-read panic
\* counted as the EndOfData it carries
Outcome(e, c) == IF e = "panic" /\ c.panic = "eof" THEN "EOF" ELSE e

\* C3: on the same input and destination decoderReader.Value and
\* Decoder.Value decode the same value and end in the same outcome,
\* EndOfData on a truncated input.
BackendsDecodeAlike ==
    (call = "Value" /\ backend = "reader")
        => Let(Decoder_Value(Fresh("buffer"), x, prior), LAMBDA o :
                 ~o.c.oob
                     => /\ Outcome(err, d) = Outcome(o.err, o.c)
                        /\ err = "nil" => dst = o.v)

RECURSIVE HasNoRule(_)
\* the shape contains, at some depth, a shape with no decode rule: as the
\* pointee, a sequence element, a mapping key or value, an included field
HasNoRule(t) ==
    CASE t.k = "Chan" -> TRUE
      [] t.k \in {"Slice", "Array", "Ptr"} -> HasNoRule(t.e)
      [] t.k = "Map" -> HasNoRule(t.key) \/ HasNoRule(t.e)
      [] t.k = "Struct" -> \E i \in 1..Len(t.f) : t.f[i].ok /\ HasNoRule(t.f[i].t)
      [] OTHER -> FALSE

\* C4: Value returns a non-nil error for every destination whose shape
\* contains a shape with no decode rule, at any depth (here: on the inputs
\* that are not an empty collection, so that the decode meets that shape).
UnsupportedShapeIsAnError ==
    (/\ call = "Value"
     /\ x.ptr
     /\ HasNoRule(x.t)
     /\ buff # <<>>
     /\ ~LongVarint(buff)
     /\ x.t.k \in {"Slice", "Array", "Map"} => buff[1] # 0)
        => err # "nil"

\* C7: on success skipByType returns the number of bytes it consumed, the
\* count prefix included; for a bool sequence of count n that is the length
\* of the prefix as read plus ceil(n/8) (stated for the inputs with no
\* ten-byte varint).
SkipReturnsBytesConsumed ==
    (/\ call = "skipByType"
     /\ Supported(x.t)
     /\ ~LongVarint(buff)
     /\ err = "nil"
     /\ ret >= 0)
        => ret = d.pos

\* the first element of a sequence of count >= 1 has no successful skip
FirstElementSkipFails(be, t) ==
    Let(uvarintOf(be, Fresh(be)), LAMBDA u :
          /\ ~u.c.fault
          /\ ToInt(u.x) >= 1
          /\ _fixTypeSize(t.e) <= 0
          /\ t.e.k # "Bool"
          /\ skipOf(be, u.c, t.e).n < 0)

\* the key or the value of the first entry of a mapping of count >= 1 has
\* no successful skip
FirstEntrySkipFails(be, t) ==
    Let(uvarintOf(be, Fresh(be)), LAMBDA u :
          /\ ~u.c.fault
          /\ ToInt(u.x) >= 1
          /\ Let(skipOf(be, u.c, t.key), LAMBDA k :
                   k.n < 0 \/ (~k.c.fault /\ skipOf(be, k.c, t.e).n < 0)))

\* the first or the second field of a record has no successful skip
FirstFieldsSkipFail(be, t) ==
    /\ Len(t.f) >= 1
    /\ Let(skipOf(be, Fresh(be), t.f[1].t), LAMBDA a :
             \/ a.n < 0
             \/ /\ Len(t.f) >= 2
                /\ ~a.c.fault
                /\ skipOf(be, a.c, t.f[2].t).n < 0)

\* C8: when the skip of an element, of a key or value, or of a field
\* returns a negative result, the skipByType of the enclosing sequence,
\* mapping or record returns a negative result too.
SkipFailurePropagates ==
    (/\ call = "skipByType"
     /\ err = "nil"
     /\ CASE x.t.k \in {"Slice", "Array"} -> FirstElementSkipFails(backend, x.t)
          [] x.t.k = "Map" -> FirstEntrySkipFails(backend, x.t)
          [] x.t.k = "Struct" -> FirstFieldsSkipFail(backend, x.t)
          [] OTHER -> FALSE)
        => ret < 0

\* C9: whenever the input ends before a read of Decoder.Value has the bytes
\* it asks for, over a buffer or over a stream, Value returns EndOfData as
\* its error; no panic leaves Value.
ShortInputIsEndOfData ==
    (call = "Value" /\ backend \in {"buffer", "stream"})
        => /\ err # "panic"
           /\ (d.fault /\ d.panic = "eof") => err = "EOF"

\* a stream ended within the second field of a record
ShortInputIsEndOfDataWitness ==
    /\ call = "Value"
    /\ backend = "stream"
    /\ x.t.k = "Struct"
    /\ d.fault
    /\ d.panic = "eof"
    /\ Len(d.reads) >= 2
    /\ err = "EOF"

\* bit i of a byte, bit 0 the least significant
BitOf(b, i) == (b \div (2 ^ i)) % 2 = 1

ByteFields(t) == \A i \in 1..Len(t.f) : t.f[i].t = U8

\* the number of included fields among the first i fields
Included(t, i) == Cardinality({j \in 1..i : t.f[j].ok})

\* C11: decoding a record visits its fields in declaration order; a field
\* the descriptor excludes consumes no byte and is left as it was, wherever
\* it stands among the included fields, and the included fields are decoded
\* from consecutive bytes (stated for records of uint8 fields, on both
\* decoders).
ExcludedFieldsConsumeNothing ==
    (call = "Value" /\ x.ptr /\ x.t.k = "Struct" /\ ByteFields(x.t))
        => /\ \A i \in 1..Len(x.t.f) : ~x.t.f[i].ok => dst[i] = prior[i]
           /\ Len(buff) >= Included(x.t, Len(x.t.f))
                  => /\ err = "nil"
                     /\ d.pos = Included(x.t, Len(x.t.f))
                     /\ \A i \in 1..Len(x.t.f) :
                           x.t.f[i].ok => dst[i] = buff[Included(x.t, i)]

\* a record with an excluded field between two included fields, decoded
\* over earlier content
ExcludedFieldsConsumeNothingWitness ==
    /\ call = "Value"
    /\ x.t = RecMid
    /\ prior = Dirty(RecMid)
    /\ Len(buff) = 3
    /\ d.pos = 2
    /\ dst = <<buff[1], 238, buff[2]>>
    /\ buff[1] # buff[2]

\* C12: for every destination fastValue handles, every input and every
\* earlier content of the destination, Decoder.Value through fastValue
\* leaves the destination, the cursor and the outcome that the general
\* value routine leaves for the same destination (stated for the inputs
\* with no ten-byte varint).
FastPathDecodesAsGeneral ==
    (/\ call = "Value"
     /\ backend \in {"buffer", "stream"}
     /\ ~LongVarint(buff)
     /\ Decoder_fastValue(Fresh(backend), x, prior).ok)
        => Let(Decoder_ValueSlow(Fresh(backend), x, prior), LAMBDA g :
                 ~g.c.oob
                     => /\ dst = g.v
                        /\ d.pos = g.c.pos
                        /\ err = g.err)

\* the kinds whose encoding starts with a varint: a natural int or uint, the
\* length of a text, the count of a sequence or of a mapping
VarintFirst == {"Int", "Uint", "String", "Slice", "Array", "Map"}

\* C13: when the varint Value reads first - a natural int or uint, a text
\* length, a sequence count, a mapping count - overflows 64 bits, so that
\* Uvarint returns a count <= 0, Decoder.Value returns a non-nil error.
VarintOverflowIsAnError ==
    (/\ call = "Value"
     /\ backend \in {"buffer", "stream"}
     /\ x.ptr
     /\ x.t.k \in VarintFirst
     /\ Overflowing(buff)
     /\ Decoder_Uvarint(Fresh(backend)).n <= 0)
        => err # "nil"

\* C15: Decoder.Value returns the unexpected-EOF error only when a read
\* asked for more bytes than the input still held; on an input that holds
\* every byte of the encoded value, a fixed-capacity bool sequence shorter
\* than the encoded count included, it does not return it (stated for the
\* inputs with no ten-byte varint).
EndOfDataOnlyOnShortInput ==
    (/\ call = "Value"
     /\ backend \in {"buffer", "stream"}
     /\ ~LongVarint(buff)
     /\ err = "EOF")
        => (d.fault /\ d.panic = "eof")

(***************************************************************************)
(* Properties of the cursor, checked under SpecCursor.                     *)
(***************************************************************************)
\* C14: over a stream every reserve(n) and Skip(n) issues exactly one Read,
\* for exactly n bytes; when the reader has n bytes the call returns them
\* and the stream has advanced by n; when it has fewer the call fails with
\* the unexpected-EOF error and no second Read; and when n exceeds the
\* length of the scratch buffer the buffer is replaced by one of length at
\* least n.
StreamCallIsOneRead ==
    (call \in {"reserve", "Skip"} /\ backend \in {"stream", "reader"})
        => /\ d.reads = Append(prior.reads, ret)
           /\ Len(buff) - prior.pos >= ret
                  => /\ err = "nil"
                     /\ d.pos = prior.pos + ret
                     /\ call = "reserve"
                            => dst = SubSeq(buff, prior.pos + 1, prior.pos + ret)
           /\ Len(buff) - prior.pos < ret
                  => /\ err = "panic"
                     /\ d.panic = "eof"
           /\ d.blen >= ret
           /\ ret <= prior.blen => d.blen = prior.blen

\* a decoderReader, after an earlier read, has reserved one byte more than
\* its scratch buffer held
StreamCallIsOneReadWitness ==
    /\ call = "reserve"
    /\ backend = "reader"
    /\ prior.blen = ScratchLen
    /\ prior.pos > 0
    /\ ret = ScratchLen + 1
    /\ d.blen = ScratchLen + 1
    /\ err = "nil"
    /\ Len(dst) = ScratchLen + 1
====
